---- MODULE Spec2Model ----
(***************************************************************************)
(* Clause-traversal state machine of the NDA document creation service.    *)
(*                                                                         *)
(* The repository holds two independent implementations over disjoint      *)
(* tables:                                                                 *)
(*   - tools/document_tools.py over database/nda_database.py               *)
(*     (live_documents, template_clauses): stateless tools keyed by doc_id *)
(*   - agents/nilo/tools/nda_creator_agent_tools.py over                   *)
(*     agents/nilo/crud/nda_database_crud.py (documents_agents, clauses):  *)
(*     tools bound to a long-lived NDACreatorAgent holding session fields  *)
(* They share no state, so a behaviour exercises one of them (impl).       *)
(* Text is modelled as a sequence of one-character strings.                *)
(***************************************************************************)
EXTENDS Integers, Sequences, FiniteSets, TLC

\* ------------------------------------------------------------------ bounds
MaxOrder == 3       \* clause order_nums are drawn from 1..MaxOrder
MaxClauses == 2     \* a template has at most MaxClauses clauses
MaxDocs == 1        \* rows the live_documents table may hold
MaxSessions == 2    \* documents one NDACreatorAgent may start
MaxStarts == 2      \* rows of live_documents in sequences of starts
MaxArgs == 2        \* positional arguments of a run_workflow call
MaxItems == 2       \* keys of a content object, when rendering runs alone
MaxRules == 2       \* alert conditions of one clause, when validation runs alone

\* ------------------------------------------------------------------ text
None == "None"

LowerChar(c) ==
    CASE c = "A" -> "a"
      [] c = "O" -> "o"
      [] c = "K" -> "k"
      [] c = "X" -> "x"
      [] OTHER -> c

\* str.lower()
Lower(s) == [i \in 1..Len(s) |-> LowerChar(s[i])]

\* Mutant of Strip: nothing is trimmed.
Untrimmed(s) == s

RECURSIVE LStrip(_)
LStrip(s) == IF s # <<>> /\ Head(s) = " " THEN LStrip(Tail(s)) ELSE s

RECURSIVE RStrip(_)
RStrip(s) ==
    IF s # <<>> /\ s[Len(s)] = " " THEN RStrip(SubSeq(s, 1, Len(s) - 1)) ELSE s

\* str.strip()
Strip(s) == RStrip(LStrip(s))

\* Python's `needle in haystack` on strings
Contains(hay, needle) ==
    \E i \in 1..(Len(hay) - Len(needle) + 1) :
        SubSeq(hay, i, i + Len(needle) - 1) = needle

\* ------------------------------------------------------------------ dict
\* The content dict of a document row, read back from its JSON column: a
\* function from keys to values (the empty dict is <<>>).  Key order of the
\* stored JSON object is not modelled.
Keys(d) == DOMAIN d

Value(d, k) == d[k]

\* d[k] = v
Put(d, k, v) == [x \in (DOMAIN d) \cup {k} |-> IF x = k THEN v ELSE d[x]]

\* ------------------------------------------------------------------ templates
MANDATORY == "mandatory"
OPTIONAL == "optional"

SectionNames == <<"Parties", "NonCompete", "Term", "Secrecy", "Law", "Venue">>

\* The rules a clause row carries (alert_conditions, a dict of name -> rule,
\* iterated in insertion order): clauses at even order_num demand a minimum
\* length, the others carry no rule.
RulesOf(o) ==
    IF o % 2 = 0
    THEN << [type |-> "min_length", value |-> 3, words |-> <<>>, message |-> "too short"] >>
    ELSE <<>>

\* The text "{field_name}" that marks a placeholder in a content_template.
Placeholder(field_name) == "{" \o field_name \o "}"

\* The content_template of a clause row, a text whose placeholders are single
\* items, and the field names of its placeholders dict: the clauses whose
\* order_num is 1 modulo 3 carry a template, the others none (<<>>).
ContentTemplateOf(o) ==
    IF o % 3 = 1 THEN <<"T", ":", Placeholder("v")>> ELSE <<>>

PlaceholdersOf(o) == IF o % 3 = 1 THEN <<"v">> ELSE <<>>

ClauseRow(o, t) ==
    [id |-> 10 + o, order_num |-> o, section_name |-> SectionNames[o],
     type |-> t, alert_conditions |-> RulesOf(o),
     content_template |-> ContentTemplateOf(o), placeholders |-> PlaceholdersOf(o)]

RECURSIVE OrderBy(_, _)
\* SELECT ... ORDER BY order_num over the rows with order_nums S
OrderBy(S, t) ==
    IF S = {} THEN <<>>
    ELSE LET o == CHOOSE m \in S : \A n \in S : m <= n
         IN <<ClauseRow(o, t[o])>> \o OrderBy(S \ {o}, t)

\* The template that uses every order_num, all clauses mandatory.
FullTable == OrderBy(1..MaxOrder, [o \in 1..MaxOrder |-> MANDATORY])

\* The orders in which the rows of a clause table may have been inserted.
InsertionOrders(rows) ==
    {[i \in 1..Len(rows) |-> rows[p[i]]] : p \in Permutations(1..Len(rows))}

\* The rows of the clause table of one template, as inserted: every set of at
\* most MaxClauses rows within the bounds, and the full one, in every order.
InsertedTables ==
    UNION { InsertionOrders(rows) :
            rows \in UNION { { OrderBy(S, t) : t \in [S -> {MANDATORY, OPTIONAL}] } :
                             S \in {X \in SUBSET (1..MaxOrder) :
                                      Cardinality(X) <= MaxClauses} }
                      \cup {FullTable} }

\* Mutant of SortByOrderNum: the ORDER BY is lost, rows come as inserted.
AsInserted(rows) == rows

RECURSIVE SortByOrderNum(_)
\* ORDER BY order_num over the rows of a table
SortByOrderNum(rows) ==
    IF rows = <<>> THEN <<>>
    ELSE LET m == CHOOSE i \in 1..Len(rows) :
                      \A j \in 1..Len(rows) : rows[i].order_num <= rows[j].order_num
         IN <<rows[m]>> \o
            SortByOrderNum(SubSeq(rows, 1, m - 1) \o SubSeq(rows, m + 1, Len(rows)))

\* What get_clauses_by_template returns for the template: its rows
\* ORDER BY order_num.
ClauseTables == {SortByOrderNum(rows) : rows \in InsertedTables}

\* Template ids: 1 is a row of the template table, 2 is not.
TemplateIds == {1, 2}
KnownTemplates == {1}

Users == {"u1"}

\* What a user may type.
Answers == { <<" ", "O", "k", " ">>, <<"v", "a", "l", "i", "d">> }

\* ------------------------------------------------------------------ validation
\* for word in words: if word.lower() in text -> position of the first hit, 0 if none
FirstWordIn(words, text) ==
    IF \E i \in 1..Len(words) : Contains(text, Lower(words[i]))
    THEN CHOOSE i \in 1..Len(words) :
            /\ Contains(text, Lower(words[i]))
            /\ \A j \in 1..(i - 1) : ~Contains(text, Lower(words[j]))
    ELSE 0

\* for term in words: if term.lower() not in text -> position of the first miss
FirstWordNotIn(words, text) ==
    IF \E i \in 1..Len(words) : ~Contains(text, Lower(words[i]))
    THEN CHOOSE i \in 1..Len(words) :
            /\ ~Contains(text, Lower(words[i]))
            /\ \A j \in 1..(i - 1) : Contains(text, Lower(words[j]))
    ELSE 0

Valid == [valid |-> TRUE, message |-> <<>>]

Invalid(rule, detail) == [valid |-> FALSE, message |-> <<rule.message, detail>>]

\* One alert condition against the response: Valid, or the rejection.
CheckRule(rule, response) ==
    LET response_lower == Strip(Lower(response)) IN
    CASE rule.type = "contains_forbidden_words" ->
            IF FirstWordIn(rule.words, response_lower) # 0
            THEN Invalid(rule, "forbidden word") ELSE Valid
      [] rule.type = "min_length" ->
            IF Len(Strip(response)) < rule.value
            THEN Invalid(rule, "minimum length") ELSE Valid
      [] rule.type = "max_length" ->
            IF Len(Strip(response)) > rule.value
            THEN Invalid(rule, "maximum length") ELSE Valid
      [] rule.type = "required_pattern" ->
            IF ~Contains(Lower(response), Lower(Head(rule.words)))
            THEN Invalid(rule, "pattern not found") ELSE Valid
      [] rule.type = "must_contain" ->
            IF FirstWordNotIn(rule.words, response_lower) # 0
            THEN Invalid(rule, "term missing") ELSE Valid
      [] OTHER -> Valid

RECURSIVE ValidateToLastFailure(_, _)
\* Mutant of ValidateLoop: every condition is evaluated and the last failure
\* is the one returned.
ValidateToLastFailure(response, conditions) ==
    IF conditions = <<>> THEN Valid
    ELSE LET r == CheckRule(Head(conditions), response)
             rest == ValidateToLastFailure(response, Tail(conditions))
         IN IF ~rest.valid THEN rest ELSE r

RECURSIVE ValidateStopsAtUnknown(_, _)
\* Mutant of ValidateLoop: a condition of unknown type ends the evaluation.
ValidateStopsAtUnknown(response, conditions) ==
    IF conditions = <<>> THEN Valid
    ELSE IF Head(conditions).type \notin
              {"contains_forbidden_words", "min_length", "max_length",
               "required_pattern", "must_contain"}
    THEN Valid
    ELSE LET r == CheckRule(Head(conditions), response)
         IN IF ~r.valid THEN r
            ELSE ValidateStopsAtUnknown(response, Tail(conditions))

RECURSIVE ValidateLoop(_, _)
ValidateLoop(response, conditions) ==
    IF conditions = <<>> THEN Valid
    ELSE LET r == CheckRule(Head(conditions), response)
         IN IF ~r.valid THEN r ELSE ValidateLoop(response, Tail(conditions))

\* _validate_response(response, clause)
ValidateResponse(response, clause) ==
    IF clause.alert_conditions = <<>> THEN Valid
    ELSE ValidateLoop(response, clause.alert_conditions)

\* ------------------------------------------------------------------ filling
RECURSIVE Replace(_, _, _)
\* text.replace(placeholder, user_response)
Replace(text, placeholder, user_response) ==
    IF text = <<>> THEN <<>>
    ELSE (IF Head(text) = placeholder THEN user_response ELSE <<Head(text)>>)
         \o Replace(Tail(text), placeholder, user_response)

RECURSIVE FillPlaceholders(_, _, _)
\* for field_name in placeholders.keys(): replace "{field_name}" if present
FillPlaceholders(filled_content, field_names, user_response) ==
    IF field_names = <<>> THEN filled_content
    ELSE LET placeholder == Placeholder(Head(field_names))
             replaced == IF \E i \in 1..Len(filled_content) :
                                filled_content[i] = placeholder
                         THEN Replace(filled_content, placeholder, user_response)
                         ELSE filled_content
         IN FillPlaceholders(replaced, Tail(field_names), user_response)

\* Mutant of ValidateAndFillClause: the answer is passed on as typed.
RawAnswer(clause, user_response) == user_response

\* _validate_and_fill_clause(clause, user_response)
ValidateAndFillClause(clause, user_response) ==
    IF clause.content_template # <<>>
    THEN IF clause.placeholders # <<>>
         THEN FillPlaceholders(clause.content_template, clause.placeholders,
                               user_response)
         ELSE clause.content_template
    ELSE user_response

\* ------------------------------------------------------------------ clause lists
\* [c for c in clauses if c.type == 'mandatory']
MandatoryClauses(clauses) == SelectSeq(clauses, LAMBDA c : c.type = MANDATORY)

\* Mutant of MissingMandatory: the filter on the clause type is lost, so an
\* optional clause without content counts as missing.
MissingOfAnyType(clauses, content) ==
    LET miss == SelectSeq(clauses, LAMBDA c : c.section_name \notin Keys(content))
    IN [i \in 1..Len(miss) |-> miss[i].section_name]

\* [c.section_name for c in mandatory if c.section_name not in content]
MissingMandatory(clauses, content) ==
    LET miss == SelectSeq(MandatoryClauses(clauses),
                          LAMBDA c : c.section_name \notin Keys(content))
    IN [i \in 1..Len(miss) |-> miss[i].section_name]

\* next((c for c in clauses if <cond>), None): index of the first match, 0 if none
FirstById(clauses, clause_id) ==
    IF \E i \in 1..Len(clauses) : clauses[i].id = clause_id
    THEN CHOOSE i \in 1..Len(clauses) :
            /\ clauses[i].id = clause_id
            /\ \A j \in 1..(i - 1) : clauses[j].id # clause_id
    ELSE 0

FirstByOrder(clauses, order) ==
    IF \E i \in 1..Len(clauses) : clauses[i].order_num = order
    THEN CHOOSE i \in 1..Len(clauses) :
            /\ clauses[i].order_num = order
            /\ \A j \in 1..(i - 1) : clauses[j].order_num # order
    ELSE 0

\* Mutant of RenderFinal: a clause without content gets an empty section.
RenderEveryClause(template_id, clauses, content) ==
    <<template_id>> \o
    [i \in 1..Len(clauses) |->
        <<clauses[i].section_name,
          IF clauses[i].section_name \in Keys(content)
          THEN Value(content, clauses[i].section_name) ELSE <<>> >>]

\* The document text: the template heading, then one section per clause, in
\* clause-list order, whose section_name is a key of content.
RenderFinal(template_id, clauses, content) ==
    LET filled == SelectSeq(clauses, LAMBDA c : c.section_name \in Keys(content))
    IN <<template_id>> \o
       [i \in 1..Len(filled) |->
            <<filled[i].section_name, Value(content, filled[i].section_name)>>]

\* ------------------------------------------------------------------ state
VARIABLES
    impl,              \* which tool module this deployment runs
    clause_rows,       \* what the clause query returns for template 1
    live_documents,    \* table live_documents (database/nda_database.py)
    documents_agents,  \* table documents_agents (crud/nda_database_crud.py)
    agent,             \* the NDACreatorAgent's session fields
    last,              \* the last tool call and what it returned or raised
    requests           \* per caller, a process_clause_response call under way

vars == <<impl, clause_rows, live_documents, documents_agents, agent, last, requests>>

\* The callers that may have a process_clause_response call under way.
Callers == {"s1", "s2"}

\* No call under way.
Idle == [pc |-> "idle", doc_id |-> 0, clause_id |-> 0, filled_content |-> <<>>,
         docs |-> <<>>]

NoRequests == [s \in Callers |-> Idle]

\* The doc ids a caller may pass: the rows of the table and one that is no row.
DocIdsOf(docs) == 1..(Len(docs) + 1)

\* The clause ids a caller may pass: the ids of the rows and one that is no row.
ClauseIds == {10} \cup {clause_rows[i].id : i \in 1..Len(clause_rows)}

\* get_template_by_id / get_doc_template: the row (its id), or 0 for None
GetTemplate(template_id) == IF template_id \in KnownTemplates THEN template_id ELSE 0

\* get_clauses_by_template: the rows of the template ORDER BY order_num
GetClausesByTemplate(template_id) ==
    IF template_id \in KnownTemplates THEN clause_rows ELSE <<>>

\* What a tool returned (raised = FALSE) or the exception that left it.  For
\* "process", info starts with the order_num of the clause answered and the
\* answer.
Outcome(op, doc, outcome, raised, info) ==
    [op |-> op, doc |-> doc, outcome |-> outcome, raised |-> raised, info |-> info]

\* ------------------------------------------------------------------ live_documents
\* create_live_document: INSERT ... (content '{}', 'in_progress', cursor 1)
CreateLiveDocument(docs, user_id, template_id) ==
    Append(docs, [user_id |-> user_id, doc_template_id |-> template_id,
                  content |-> <<>>, status |-> "in_progress",
                  current_clause_order |-> 1])

\* update_live_document_content: content and cursor in one UPDATE
UpdateLiveDocumentContent(docs, doc_id, content, current_clause_order) ==
    [docs EXCEPT ![doc_id].content = content,
                 ![doc_id].current_clause_order = current_clause_order]

\* complete_document / pause_document / resume_document: UPDATE ... SET status
SetStatus(docs, doc_id, status) == [docs EXCEPT ![doc_id].status = status]

\* ------------------------------------------------------------------ tools/document_tools.py
\* ClauseInfo of a clause row
ClauseInfo(c) == <<c.id, c.order_num, c.section_name, c.type>>

\* Mutant of start_document_creation: the row is inserted before the template
\* and its clauses are looked up.
start_creates_first(docs, user_id, template_id) ==
    LET clauses == GetClausesByTemplate(template_id)
        created == CreateLiveDocument(docs, user_id, template_id)
    IN
    IF GetTemplate(template_id) = 0
    THEN [docs |-> created,
          out |-> Outcome("start", 0, "template_not_found", TRUE, <<>>)]
    ELSE IF clauses = <<>>
    THEN [docs |-> created, out |-> Outcome("start", 0, "no_clauses", TRUE, <<>>)]
    ELSE [docs |-> created,
          out |-> Outcome("start", Len(docs) + 1, "ok", FALSE,
                          <<ClauseInfo(clauses[1]), <<>>, "in_progress">>)]

\* start_document_creation(db_url, user_id, template_id)
start_document_creation(docs, user_id, template_id) ==
    LET clauses == GetClausesByTemplate(template_id) IN
    IF GetTemplate(template_id) = 0
    THEN [docs |-> docs,
          out |-> Outcome("start", 0, "template_not_found", TRUE, <<>>)]
    ELSE IF clauses = <<>>
    THEN [docs |-> docs, out |-> Outcome("start", 0, "no_clauses", TRUE, <<>>)]
    ELSE [docs |-> CreateLiveDocument(docs, user_id, template_id),
          out |-> Outcome("start", Len(docs) + 1, "ok", FALSE,
                          <<ClauseInfo(clauses[1]), <<>>, "in_progress">>)]

\* process_clause_response(db_url, doc_id, clause_id, user_response, filled_content)
process_clause_response(docs, doc_id, clause_id, filled_content) ==
    IF doc_id > Len(docs)
    THEN [docs |-> docs,
          out |-> Outcome("process", doc_id, "doc_not_found", TRUE, <<>>)]
    ELSE
    LET live_doc == docs[doc_id]
        clauses == GetClausesByTemplate(live_doc.doc_template_id)
        ci == FirstById(clauses, clause_id)
    IN
    IF GetTemplate(live_doc.doc_template_id) = 0
    THEN [docs |-> docs,
          out |-> Outcome("process", doc_id, "template_not_found", TRUE, <<>>)]
    ELSE IF clauses = <<>>
    THEN [docs |-> docs, out |-> Outcome("process", doc_id, "no_clauses", TRUE, <<>>)]
    ELSE IF ci = 0
    THEN [docs |-> docs,
          out |-> Outcome("process", doc_id, "clause_not_found", TRUE, <<>>)]
    ELSE
    LET current_clause == clauses[ci]
        content == Put(live_doc.content, current_clause.section_name, filled_content)
        ni == FirstByOrder(clauses, current_clause.order_num + 1)
    IN
    IF ni = 0
    THEN \* no next clause: the document is marked completed, content is not written
         [docs |-> SetStatus(docs, doc_id, "completed"),
          out |-> Outcome("process", doc_id, "ok", FALSE,
                          <<current_clause.order_num, filled_content,
                            ClauseInfo(current_clause), content, "completed">>)]
    ELSE [docs |-> UpdateLiveDocumentContent(docs, doc_id, content,
                                             clauses[ni].order_num),
          out |-> Outcome("process", doc_id, "ok", FALSE,
                          <<current_clause.order_num, filled_content,
                            ClauseInfo(clauses[ni]), content, live_doc.status>>)]

\* The markers of the preview, as texts.
InProgressMarker == <<"_Em preenchimento..._">>
PendingMarker == <<"_Aguardando preenchimento_">>

\* Mutant of PreviewText: the cursor is looked at before the content.
PreviewTextCursorFirst(template_id, clauses, content, current_clause_order) ==
    <<template_id>> \o
    [i \in 1..Len(clauses) |->
        IF clauses[i].order_num = current_clause_order
        THEN <<clauses[i].section_name, InProgressMarker>>
        ELSE IF clauses[i].section_name \in Keys(content)
        THEN <<clauses[i].section_name, Value(content, clauses[i].section_name)>>
        ELSE <<clauses[i].section_name, PendingMarker>>]

\* The preview text: per clause the stored content, or a marker.
PreviewText(template_id, clauses, content, current_clause_order) ==
    <<template_id>> \o
    [i \in 1..Len(clauses) |->
        IF clauses[i].section_name \in Keys(content)
        THEN <<clauses[i].section_name, Value(content, clauses[i].section_name)>>
        ELSE IF clauses[i].order_num = current_clause_order
        THEN <<clauses[i].section_name, InProgressMarker>>
        ELSE <<clauses[i].section_name, PendingMarker>>]

\* Mutant of get_live_preview: the cursor of a previewed row is reset.
get_live_preview_resets_cursor(docs, doc_id) ==
    IF doc_id > Len(docs)
    THEN [docs |-> docs,
          out |-> Outcome("preview", doc_id, "doc_not_found", TRUE, <<>>)]
    ELSE [docs |-> [docs EXCEPT ![doc_id].current_clause_order = 0],
          out |-> Outcome("preview", doc_id, "ok", FALSE,
                          PreviewText(docs[doc_id].doc_template_id,
                                      GetClausesByTemplate(docs[doc_id].doc_template_id),
                                      docs[doc_id].content, 0))]

\* get_live_preview(db_url, doc_id)
get_live_preview(docs, doc_id) ==
    IF doc_id > Len(docs)
    THEN [docs |-> docs,
          out |-> Outcome("preview", doc_id, "doc_not_found", TRUE, <<>>)]
    ELSE
    LET live_doc == docs[doc_id]
        clauses == GetClausesByTemplate(live_doc.doc_template_id)
    IN
    IF GetTemplate(live_doc.doc_template_id) = 0
    THEN [docs |-> docs,
          out |-> Outcome("preview", doc_id, "template_not_found", TRUE, <<>>)]
    ELSE IF clauses = <<>>
    THEN [docs |-> docs, out |-> Outcome("preview", doc_id, "no_clauses", TRUE, <<>>)]
    ELSE [docs |-> docs,
          out |-> Outcome("preview", doc_id, "ok", FALSE,
                          PreviewText(live_doc.doc_template_id, clauses,
                                      live_doc.content, live_doc.current_clause_order))]

\* Mutant of complete_document: the row is marked completed before the
\* mandatory clauses are checked.
complete_document_marks_first(docs, doc_id) ==
    IF doc_id > Len(docs)
    THEN [docs |-> docs,
          out |-> Outcome("complete", doc_id, "doc_not_found", TRUE, <<>>)]
    ELSE
    LET live_doc == docs[doc_id]
        clauses == GetClausesByTemplate(live_doc.doc_template_id)
        missing == MissingMandatory(clauses, live_doc.content)
    IN
    [docs |-> SetStatus(docs, doc_id, "completed"),
     out |-> IF missing # <<>>
             THEN Outcome("complete", doc_id, "mandatory_missing", TRUE, <<Head(missing)>>)
             ELSE Outcome("complete", doc_id, "ok", FALSE,
                          RenderFinal(live_doc.doc_template_id, clauses,
                                      live_doc.content))]

\* complete_document(db_url, doc_id)
complete_document(docs, doc_id) ==
    IF doc_id > Len(docs)
    THEN [docs |-> docs,
          out |-> Outcome("complete", doc_id, "doc_not_found", TRUE, <<>>)]
    ELSE
    LET live_doc == docs[doc_id]
        clauses == GetClausesByTemplate(live_doc.doc_template_id)
        content == live_doc.content
        missing == MissingMandatory(clauses, content)
    IN
    IF GetTemplate(live_doc.doc_template_id) = 0
    THEN [docs |-> docs,
          out |-> Outcome("complete", doc_id, "template_not_found", TRUE, <<>>)]
    ELSE IF clauses = <<>>
    THEN [docs |-> docs, out |-> Outcome("complete", doc_id, "no_clauses", TRUE, <<>>)]
    ELSE IF missing # <<>>
    THEN \* the loop raises at the first mandatory clause that is not in content
         [docs |-> docs,
          out |-> Outcome("complete", doc_id, "mandatory_missing", TRUE,
                          <<Head(missing)>>)]
    ELSE [docs |-> SetStatus(docs, doc_id, "completed"),
          out |-> Outcome("complete", doc_id, "ok", FALSE,
                          RenderFinal(live_doc.doc_template_id, clauses, content))]

\* DocumentCreationWorkflow._process_document_response(user_response), for the
\* document and current clause held in the session's document_info
process_document_response(docs, doc_id, current_clause, user_response) ==
    LET filled_content == ValidateAndFillClause(current_clause, user_response)
        info == <<current_clause.order_num, user_response, filled_content>>
        r == process_clause_response(docs, doc_id, current_clause.id, filled_content)
    IN
    IF filled_content = <<>>
    THEN [docs |-> docs, out |-> Outcome("respond", doc_id, "empty", FALSE, info)]
    ELSE IF r.out.raised
    THEN [docs |-> r.docs, out |-> Outcome("respond", doc_id, "error", FALSE, info)]
    ELSE IF r.docs[doc_id].status = "completed"
    THEN \* the final document is generated at once
         LET c == complete_document(r.docs, doc_id) IN
         [docs |-> c.docs,
          out |-> Outcome("respond", doc_id,
                          IF c.out.raised THEN "error" ELSE "completed", FALSE, info)]
    ELSE [docs |-> r.docs, out |-> Outcome("respond", doc_id, "ok", FALSE, info)]

\* pause_document / resume_document: the UPDATE of a missing row returns no row,
\* and building the LiveDocument from it raises
set_status(docs, doc_id, op, status) ==
    IF doc_id > Len(docs)
    THEN [docs |-> docs, out |-> Outcome(op, doc_id, "doc_not_found", TRUE, <<>>)]
    ELSE [docs |-> SetStatus(docs, doc_id, status),
          out |-> Outcome(op, doc_id, "ok", FALSE, <<>>)]

\* ------------------------------------------------------------------ documents_agents
\* create_document_agent: INSERT (doc_template_id, content '{}'); status and
\* current_clause_order take the row defaults of DocumentAgentModel
CreateDocumentAgent(docs, template_id) ==
    Append(docs, [doc_template_id |-> template_id, content |-> <<>>,
                  status |-> "in_progress", current_clause_order |-> 1])

\* update_document_agent_content(doc_id, section_name, content, current_clause_order)
UpdateDocumentAgentContent(docs, doc_id, section_name, content, current_clause_order) ==
    [docs EXCEPT ![doc_id].content = Put(docs[doc_id].content, section_name, content),
                 ![doc_id].current_clause_order = current_clause_order]

\* ------------------------------------------------------------------ nda_creator_agent_tools.py
\* NDACreatorAgent.__init__
NewAgent(doc_template_ids) ==
    [doc_template_ids |-> doc_template_ids, current_document_id |-> 0,
     current_template_id |-> 0, current_clauses |-> <<>>,
     current_clause_index |-> 0]

\* _get_current_clause_prompt
CurrentClausePrompt(a) ==
    IF a.current_clause_index >= Len(a.current_clauses)
    THEN <<"All clauses completed!">>
    ELSE LET c == a.current_clauses[a.current_clause_index + 1]
         IN <<a.current_clause_index + 1, Len(a.current_clauses),
              c.section_name, c.type, c.type = OPTIONAL>>

\* start_nda_creation
start_nda_creation(a, docs) ==
    IF a.doc_template_ids = <<>>
    THEN [agent |-> a, docs |-> docs,
          out |-> Outcome("start", 0, "no_templates", FALSE, <<>>)]
    ELSE
    LET tid == a.doc_template_ids[1]
        a1 == [a EXCEPT !.current_template_id = tid]
        a2 == [a1 EXCEPT !.current_clauses = GetClausesByTemplate(tid)]
        a3 == [a2 EXCEPT !.current_document_id = Len(docs) + 1,
                         !.current_clause_index = 0]
    IN
    IF GetTemplate(tid) = 0
    THEN [agent |-> a1, docs |-> docs,
          out |-> Outcome("start", 0, "template_not_found", FALSE, <<>>)]
    ELSE IF a2.current_clauses = <<>>
    THEN [agent |-> a2, docs |-> docs,
          out |-> Outcome("start", 0, "no_clauses", FALSE, <<>>)]
    ELSE [agent |-> a3, docs |-> CreateDocumentAgent(docs, tid),
          out |-> Outcome("start", Len(docs) + 1, "ok", FALSE, CurrentClausePrompt(a3))]

\* process_clause_response(user_response)
nda_process_clause_response(a, docs, user_response) ==
    IF a.current_document_id = 0 \/ a.current_clause_index >= Len(a.current_clauses)
    THEN [agent |-> a, docs |-> docs,
          out |-> Outcome("process", a.current_document_id, "no_session", FALSE, <<>>)]
    ELSE
    LET current_clause == a.current_clauses[a.current_clause_index + 1]
        validation_result == ValidateResponse(user_response, current_clause)
    IN
    IF ~validation_result.valid
    THEN [agent |-> a, docs |-> docs,
          out |-> Outcome("process", a.current_document_id, "rejected", FALSE,
                          <<current_clause.order_num, user_response,
                            validation_result.message>>)]
    ELSE [agent |-> a,
          docs |-> UpdateDocumentAgentContent(docs, a.current_document_id,
                        current_clause.section_name, user_response,
                        current_clause.order_num),
          out |-> Outcome("process", a.current_document_id, "ok", FALSE,
                          <<current_clause.order_num, user_response>>)]

\* Mutant of SkipCheck: the section name is compared before the type.
SkipCheckNameFirst(current_clause, section_name) ==
    IF current_clause.section_name # section_name THEN "section_name_mismatch"
    ELSE IF current_clause.type # OPTIONAL THEN "cannot_skip_mandatory"
    ELSE "skipped"

\* Mutant of SkipCheck: the section name is not compared.
SkipCheckNoName(current_clause, section_name) ==
    IF current_clause.type # OPTIONAL THEN "cannot_skip_mandatory" ELSE "skipped"

\* The two checks of skip_optional_clause on the current clause, in order.
SkipCheck(current_clause, section_name) ==
    IF current_clause.type # OPTIONAL THEN "cannot_skip_mandatory"
    ELSE IF current_clause.section_name # section_name THEN "section_name_mismatch"
    ELSE "skipped"

\* skip_optional_clause(section_name)
skip_optional_clause(a, docs, section_name) ==
    IF a.current_clause_index >= Len(a.current_clauses)
    THEN \* IndexError, caught by the handler's except
         [agent |-> a, docs |-> docs,
          out |-> Outcome("skip", a.current_document_id, "error", FALSE, <<>>)]
    ELSE
    LET current_clause == a.current_clauses[a.current_clause_index + 1] IN
    [agent |-> a, docs |-> docs,
     out |-> Outcome("skip", a.current_document_id,
                     SkipCheck(current_clause, section_name), FALSE,
                     <<current_clause.section_name>>)]

\* proceed_to_next_clause
proceed_to_next_clause(a, docs) ==
    LET a1 == [a EXCEPT !.current_clause_index = @ + 1] IN
    IF a1.current_clause_index >= Len(a1.current_clauses)
    THEN [agent |-> a1, docs |-> docs,
          out |-> Outcome("proceed", a.current_document_id, "all_completed", FALSE, <<>>)]
    ELSE [agent |-> a1, docs |-> docs,
          out |-> Outcome("proceed", a.current_document_id, "prompt", FALSE,
                          CurrentClausePrompt(a1))]

\* get_document_preview
get_document_preview(a, docs) ==
    IF a.current_document_id = 0
    THEN [agent |-> a, docs |-> docs,
          out |-> Outcome("preview", 0, "no_session", FALSE, <<>>)]
    ELSE IF a.current_document_id > Len(docs)
    THEN [agent |-> a, docs |-> docs,
          out |-> Outcome("preview", a.current_document_id, "doc_not_found", FALSE, <<>>)]
    ELSE
    LET doc_agent == docs[a.current_document_id] IN
    [agent |-> a, docs |-> docs,
     out |-> Outcome("preview", a.current_document_id, "ok", FALSE,
                     <<doc_agent.status, doc_agent.content,
                       IF a.current_clause_index < Len(a.current_clauses)
                       THEN a.current_clauses[a.current_clause_index + 1].section_name
                       ELSE None>>)]

\* validate_clause_content(content)
validate_clause_content(a, docs, content) ==
    IF a.current_clause_index >= Len(a.current_clauses)
    THEN [agent |-> a, docs |-> docs,
          out |-> Outcome("validate", a.current_document_id, "no_clause", FALSE, <<>>)]
    ELSE
    LET r == ValidateResponse(content, a.current_clauses[a.current_clause_index + 1]) IN
    [agent |-> a, docs |-> docs,
     out |-> Outcome("validate", a.current_document_id,
                     IF r.valid THEN "passed" ELSE "failed", FALSE, r.message)]

\* Mutant of complete_nda_document: the session fields are not reset.
complete_nda_document_keeps_session(a, docs) ==
    IF a.current_document_id = 0
    THEN [agent |-> a, docs |-> docs,
          out |-> Outcome("complete", 0, "no_session", FALSE, <<>>)]
    ELSE IF a.current_document_id > Len(docs)
    THEN [agent |-> a, docs |-> docs,
          out |-> Outcome("complete", a.current_document_id, "doc_not_found", FALSE, <<>>)]
    ELSE
    LET doc_agent == docs[a.current_document_id]
        mandatory_clauses == MandatoryClauses(a.current_clauses)
        completed_mandatory ==
            SelectSeq(mandatory_clauses,
                      LAMBDA c : c.section_name \in Keys(doc_agent.content))
    IN
    IF Len(completed_mandatory) < Len(mandatory_clauses)
    THEN [agent |-> a, docs |-> docs,
          out |-> Outcome("complete", a.current_document_id, "mandatory_missing", FALSE,
                          MissingMandatory(a.current_clauses, doc_agent.content))]
    ELSE [agent |-> a,
          docs |-> SetStatus(docs, a.current_document_id, "completed"),
          out |-> Outcome("complete", a.current_document_id, "ok", FALSE,
                          RenderFinal(a.current_template_id, a.current_clauses,
                                      doc_agent.content))]

\* complete_nda_document
complete_nda_document(a, docs) ==
    IF a.current_document_id = 0
    THEN [agent |-> a, docs |-> docs,
          out |-> Outcome("complete", 0, "no_session", FALSE, <<>>)]
    ELSE IF a.current_document_id > Len(docs)
    THEN [agent |-> a, docs |-> docs,
          out |-> Outcome("complete", a.current_document_id, "doc_not_found", FALSE, <<>>)]
    ELSE
    LET doc_agent == docs[a.current_document_id]
        mandatory_clauses == MandatoryClauses(a.current_clauses)
        completed_mandatory ==
            SelectSeq(mandatory_clauses,
                      LAMBDA c : c.section_name \in Keys(doc_agent.content))
    IN
    IF Len(completed_mandatory) < Len(mandatory_clauses)
    THEN [agent |-> a, docs |-> docs,
          out |-> Outcome("complete", a.current_document_id, "mandatory_missing", FALSE,
                          MissingMandatory(a.current_clauses, doc_agent.content))]
    ELSE [agent |-> NewAgent(a.doc_template_ids),
          docs |-> SetStatus(docs, a.current_document_id, "completed"),
          out |-> Outcome("complete", a.current_document_id, "ok", FALSE,
                          RenderFinal(a.current_template_id, a.current_clauses,
                                      doc_agent.content))]

\* ------------------------------------------------------------------ specification
Init ==
    /\ impl \in {"document_tools", "nda_creator_agent_tools"}
    /\ clause_rows \in ClauseTables
    /\ live_documents = <<>>
    /\ documents_agents = <<>>
    /\ agent \in {NewAgent(ids) :
                  ids \in IF impl = "document_tools" THEN {<<>>}
                          ELSE {<<>>, <<1>>, <<2>>}}
    /\ last = Outcome("init", 0, "ok", FALSE, <<>>)
    /\ requests = NoRequests

\* A tool of tools/document_tools.py ran: r is what it did.
ToolsStep(r) ==
    /\ live_documents' = r.docs
    /\ last' = r.out
    /\ UNCHANGED <<impl, clause_rows, documents_agents, agent, requests>>

\* The agent tools address no row but self.current_document_id, and
\* start_nda_creation only ever sets it to the id of the row it has just
\* inserted: a row of an earlier session is frozen for good.  Its fields are
\* dropped from the state (status "archived") once the next session starts.
Archived ==
    [doc_template_id |-> 0, content |-> <<>>, status |-> "archived",
     current_clause_order |-> 0]

Archive(docs, keep) == [i \in 1..Len(docs) |-> IF i = keep THEN docs[i] ELSE Archived]

\* A tool of the NDA creator agent ran: r is what it did.
AgentStep(r) ==
    /\ agent' = r.agent
    /\ documents_agents' =
          IF Len(r.docs) > Len(documents_agents)
          THEN Archive(r.docs, Len(r.docs)) ELSE r.docs
    /\ last' = r.out
    /\ UNCHANGED <<impl, clause_rows, live_documents, requests>>

StartDocumentCreation ==
    /\ impl = "document_tools"
    /\ Len(live_documents) < MaxDocs
    /\ \E user_id \in Users, template_id \in TemplateIds :
          ToolsStep(start_document_creation(live_documents, user_id, template_id))

ProcessClauseResponse ==
    /\ impl = "document_tools"
    /\ \E doc_id \in DocIdsOf(live_documents), clause_id \in ClauseIds,
          filled_content \in Answers :
          ToolsStep(process_clause_response(live_documents, doc_id, clause_id,
                                            filled_content))

GetLivePreview ==
    /\ impl = "document_tools"
    /\ \E doc_id \in DocIdsOf(live_documents) : ToolsStep(get_live_preview(live_documents, doc_id))

CompleteDocument ==
    /\ impl = "document_tools"
    /\ \E doc_id \in DocIdsOf(live_documents) : ToolsStep(complete_document(live_documents, doc_id))

\* The workflow answers for a document of the table and a clause of its
\* template, as its session holds them.
ProcessDocumentResponse ==
    /\ impl = "document_tools"
    /\ \E doc_id \in 1..Len(live_documents), i \in 1..Len(clause_rows),
          user_response \in Answers :
          ToolsStep(process_document_response(live_documents, doc_id,
                                              clause_rows[i], user_response))

\* pause_document and resume_document have no caller in the repository: they
\* are steps of the store, not of the tools, and are left out of Next.
PauseDocument ==
    /\ impl = "document_tools"
    /\ \E doc_id \in DocIdsOf(live_documents) :
          ToolsStep(set_status(live_documents, doc_id, "pause", "paused"))

ResumeDocument ==
    /\ impl = "document_tools"
    /\ \E doc_id \in DocIdsOf(live_documents) :
          ToolsStep(set_status(live_documents, doc_id, "resume", "in_progress"))

StartNdaCreation ==
    /\ impl = "nda_creator_agent_tools"
    /\ Len(documents_agents) < MaxSessions
    /\ AgentStep(start_nda_creation(agent, documents_agents))

NdaProcessClauseResponse ==
    /\ impl = "nda_creator_agent_tools"
    /\ \E user_response \in Answers :
          AgentStep(nda_process_clause_response(agent, documents_agents, user_response))

SkipOptionalClause ==
    /\ impl = "nda_creator_agent_tools"
    /\ \E o \in 1..MaxOrder :
          AgentStep(skip_optional_clause(agent, documents_agents, SectionNames[o]))

ProceedToNextClause ==
    /\ impl = "nda_creator_agent_tools"
    /\ agent.current_clause_index <= MaxClauses
    /\ AgentStep(proceed_to_next_clause(agent, documents_agents))

GetDocumentPreview ==
    /\ impl = "nda_creator_agent_tools"
    /\ AgentStep(get_document_preview(agent, documents_agents))

ValidateClauseContent ==
    /\ impl = "nda_creator_agent_tools"
    /\ \E content \in Answers :
          AgentStep(validate_clause_content(agent, documents_agents, content))

CompleteNdaDocument ==
    /\ impl = "nda_creator_agent_tools"
    /\ AgentStep(complete_nda_document(agent, documents_agents))

Next ==
    \/ StartDocumentCreation
    \/ ProcessClauseResponse
    \/ GetLivePreview
    \/ CompleteDocument
    \/ StartNdaCreation
    \/ NdaProcessClauseResponse
    \/ SkipOptionalClause
    \/ ProceedToNextClause
    \/ GetDocumentPreview
    \/ ValidateClauseContent
    \/ CompleteNdaDocument

Spec == Init /\ [][Next]_vars

\* The deployment in which answers arrive through the workflow
\* (DocumentCreationWorkflow over tools/document_tools.py) or through the
\* agent's process_clause_response.
NextWorkflow ==
    \/ StartDocumentCreation
    \/ ProcessDocumentResponse
    \/ StartNdaCreation
    \/ NdaProcessClauseResponse

SpecWorkflow == Init /\ [][NextWorkflow]_vars

\* The users who may start documents one after the other.
StartUsers == {"u1", "u2"}

\* start_document_creation on a table that may already hold documents, up to
\* MaxStarts rows.
StartAnotherDocument ==
    /\ impl = "document_tools"
    /\ Len(live_documents) < MaxStarts
    /\ \E user_id \in StartUsers, template_id \in TemplateIds :
          ToolsStep(start_document_creation(live_documents, user_id, template_id))

\* Sequences of start operations only.
NextStart ==
    \/ StartAnotherDocument
    \/ StartNdaCreation

SpecStart == Init /\ [][NextStart]_vars

\* ------------------------------------------------------------------ validation alone
\* The alert conditions a clause may declare.
RulePool ==
    { [type |-> "min_length", value |-> 10, words |-> <<>>, message |-> "min 10"],
      [type |-> "min_length", value |-> 3, words |-> <<>>, message |-> "min 3"],
      [type |-> "max_length", value |-> 3, words |-> <<>>, message |-> "max 3"],
      [type |-> "contains_forbidden_words", value |-> 0, words |-> << <<"x">> >>,
       message |-> "forbidden"],
      [type |-> "must_contain", value |-> 0, words |-> << <<"o", "k">> >>,
       message |-> "must contain"],
      [type |-> "max_words", value |-> 0, words |-> <<>>, message |-> "max words"] }

\* alert_conditions of a clause: at most MaxRules conditions, in the order of
\* the dict.
RuleLists == UNION { [1..n -> RulePool] : n \in 0..MaxRules }

\* The responses validated.
Responses ==
    { <<>>, <<"x">>, <<" ", "X", " ">>, <<" ", "O", "k", " ">>,
      <<" ", "a", "b", "c", " ">>, <<"a", "b", "c", "d">>,
      <<"v", "a", "l", "i", "d">>,
      <<"o", "k", " ", "o", "k", " ", "o", "k", " ", "o", "k">> }

\* A clause carrying the conditions.
ClauseWith(conditions) == [ClauseRow(1, MANDATORY) EXCEPT !.alert_conditions = conditions]

InitValidate ==
    /\ impl = "nda_creator_agent_tools"
    /\ clause_rows = <<>>
    /\ live_documents = <<>>
    /\ documents_agents = <<>>
    /\ agent = NewAgent(<<>>)
    /\ last = Outcome("init", 0, "ok", FALSE, <<>>)
    /\ requests = NoRequests

\* _validate_response(response, clause) on a clause and a response
ValidateAnyResponse ==
    /\ \E response \in Responses, conditions \in RuleLists :
          LET r == ValidateResponse(response, ClauseWith(conditions)) IN
          last' = Outcome("validate_response", 0,
                          IF r.valid THEN "valid" ELSE "invalid", FALSE,
                          <<response, conditions, r.message>>)
    /\ UNCHANGED <<impl, clause_rows, live_documents, documents_agents, agent, requests>>

SpecValidate == InitValidate /\ [][ValidateAnyResponse]_vars

\* ------------------------------------------------------------------ rendering alone
\* The content column as the JSON object it is: its keys in insertion order.
AsDict(items) ==
    [k \in {items[i][1] : i \in 1..Len(items)} |->
        (CHOOSE i \in 1..Len(items) : items[i][1] = k) ]

\* content[section_name] of that object
ItemValue(items, k) == items[AsDict(items)[k]][2]

\* Mutant of RenderItems: one section per key of content, in insertion order.
RenderInInsertionOrder(template_id, clauses, items) ==
    <<template_id>> \o [i \in 1..Len(items) |-> <<items[i][1], items[i][2]>>]

\* The rendering loop of complete_document on a content object
RenderItems(template_id, clauses, items) ==
    LET filled == SelectSeq(clauses,
                      LAMBDA c : c.section_name \in DOMAIN AsDict(items))
    IN <<template_id>> \o
       [i \in 1..Len(filled) |->
            <<filled[i].section_name, ItemValue(items, filled[i].section_name)>>]

\* _generate_final_document(self, doc_agent, template)
generate_final_document(a, items, template_id) ==
    RenderItems(template_id, a.current_clauses, items)

\* The session of an agent that loaded the clauses and stands at index k.
SessionAt(rows, k) ==
    [NewAgent(<<1>>) EXCEPT !.current_document_id = 1,
                            !.current_template_id = 1,
                            !.current_clauses = rows,
                            !.current_clause_index = k]

\* What either implementation renders for a content object.
RenderBy(module, rows, items, k) ==
    IF module = "document_tools" THEN RenderItems(1, rows, items)
    ELSE generate_final_document(SessionAt(rows, k), items, 1)

\* Content objects over the sections of the clause rows: up to MaxItems keys,
\* in any insertion order.
ContentItems(rows) ==
    LET names == {rows[i].section_name : i \in 1..Len(rows)}
        pairs == names \X Answers
    IN {items \in UNION {[1..n -> pairs] : n \in 0..MaxItems} :
          \A i, j \in 1..Len(items) : i # j => items[i][1] # items[j][1]}

InitRender ==
    /\ impl \in {"document_tools", "nda_creator_agent_tools"}
    /\ clause_rows \in ClauseTables
    /\ live_documents = <<>>
    /\ documents_agents = <<>>
    /\ agent = NewAgent(<<>>)
    /\ last = Outcome("init", 0, "ok", FALSE, <<>>)
    /\ requests = NoRequests

\* The renderer ran on a content object, in some session.
RenderDocument ==
    /\ \E items \in ContentItems(clause_rows), k \in 0..Len(clause_rows) :
          last' = Outcome("render", 1, "ok", FALSE,
                          <<items, RenderBy(impl, clause_rows, items, k)>>)
    /\ UNCHANGED <<impl, clause_rows, live_documents, documents_agents, agent, requests>>

SpecRender == InitRender /\ [][RenderDocument]_vars

\* ------------------------------------------------------------------ run_workflow
\* The texts a caller sends.
Messages == { <<>>, <<"x">>, <<"O", "k">>, <<"v", "a", "l", "i", "d">> }

\* The positional arguments of a call.
ArgLists == UNION { [1..n -> Messages] : n \in 0..MaxArgs }

\* The keyword arguments of a call: 'message' or not, 'stream' or not.
KwargDicts ==
    { d \in UNION { [K -> Messages] : K \in SUBSET {"message", "stream"} } :
        "stream" \in DOMAIN d => d["stream"] = <<>> }

\* Mutant of run_workflow: positional arguments are not looked at.
run_workflow_keywords_only(args, kwargs) == kwargs

\* DocumentCreationWorkflow.run_workflow(*args, **kwargs): the keyword
\* arguments handed to Workflow.run_workflow
run_workflow(args, kwargs) ==
    IF args # <<>> THEN Put(kwargs, "message", args[1]) ELSE kwargs

\* DocumentCreationWorkflow.run(**kwargs): the responses it yields
run(kwargs) ==
    LET message == IF "message" \in DOMAIN kwargs THEN kwargs["message"] ELSE <<>>
    IN IF message = <<>>
       THEN <<"Erro: Mensagem não fornecida">>
       ELSE <<"Iniciando análise do documento...", "Buscando templates disponíveis...",
              "Template selecionado: NDA Padrão", "Processando cláusulas do documento...",
              "Documento processado com sucesso!">>

\* A caller runs the workflow; Workflow.run_workflow passes the keyword
\* arguments it is given on to run.
RunWorkflow ==
    /\ \E args \in ArgLists, kwargs \in KwargDicts :
          LET forwarded == run_workflow(args, kwargs) IN
          last' = Outcome("run_workflow", 0, "ok", FALSE,
                          <<args, kwargs, forwarded, run(forwarded)>>)
    /\ UNCHANGED <<impl, clause_rows, live_documents, documents_agents, agent, requests>>

SpecRunWorkflow == InitValidate /\ [][RunWorkflow]_vars

\* ------------------------------------------------------------------ the registered tools
\* The tools in the tools list of the NDA Creator agent.
NextRegistered ==
    \/ StartNdaCreation
    \/ NdaProcessClauseResponse
    \/ SkipOptionalClause
    \/ GetDocumentPreview
    \/ ValidateClauseContent
    \/ CompleteNdaDocument

\* The user gives a valid answer to the prompted clause.
GiveValidAnswer == NdaProcessClauseResponse /\ last'.outcome = "ok"

\* The user skips the prompted clause, which is optional.
SkipPrompted == SkipOptionalClause /\ last'.outcome = "skipped"

\* The agent calls a tool whenever the user's message asks for one: an answer
\* or a skip the user keeps giving is eventually processed.
SpecRegistered ==
    Init /\ [][NextRegistered]_vars /\ WF_vars(GiveValidAnswer) /\ WF_vars(SkipPrompted)

\* ------------------------------------------------------------------ concurrent submissions
\* A document of the tools has been started; no call is under way.
InitConcurrent ==
    /\ impl = "document_tools"
    /\ clause_rows \in ClauseTables
    /\ live_documents = start_document_creation(<<>>, "u1", 1).docs
    /\ documents_agents = <<>>
    /\ agent = NewAgent(<<>>)
    /\ last = start_document_creation(<<>>, "u1", 1).out
    /\ requests = NoRequests

\* process_clause_response up to its first await: the caller s has read the
\* row of the document.
LoadDocument(s) ==
    /\ requests[s].pc = "idle"
    /\ \E doc_id \in 1..Len(live_documents), i \in 1..Len(clause_rows),
          filled_content \in Answers :
          requests' = [requests EXCEPT ![s] =
                          [pc |-> "loaded", doc_id |-> doc_id,
                           clause_id |-> clause_rows[i].id,
                           filled_content |-> filled_content,
                           docs |-> live_documents]]
    /\ UNCHANGED <<impl, clause_rows, live_documents, documents_agents, agent, last>>

\* The rest of process_clause_response: the content and the cursor computed
\* from the row as it was read are written with one UPDATE, or, when the
\* clause has no next one, the status alone is set.
WriteDocument(s) ==
    /\ requests[s].pc = "loaded"
    /\ LET req == requests[s]
           r == process_clause_response(req.docs, req.doc_id, req.clause_id,
                                        req.filled_content)
       IN /\ live_documents' =
                IF r.out.outcome # "ok" THEN live_documents
                ELSE IF r.out.info[3][2] = r.out.info[1]
                THEN SetStatus(live_documents, req.doc_id, "completed")
                ELSE UpdateLiveDocumentContent(live_documents, req.doc_id,
                         r.docs[req.doc_id].content,
                         r.docs[req.doc_id].current_clause_order)
          /\ last' = r.out
    /\ requests' = [requests EXCEPT ![s].pc = "done"]
    /\ UNCHANGED <<impl, clause_rows, documents_agents, agent>>

NextConcurrent == \E s \in Callers : LoadDocument(s) \/ WriteDocument(s)

SpecConcurrent == InitConcurrent /\ [][NextConcurrent]_vars

\* ------------------------------------------------------------------ claims
\* The rows of both document tables that still carry their fields.
StoredDocs ==
    {live_documents[i] : i \in 1..Len(live_documents)} \cup
    {documents_agents[i] : i \in {j \in 1..Len(documents_agents) :
                                    documents_agents[j].status # "archived"}}

OrderNums(clauses) == {clauses[i].order_num : i \in 1..Len(clauses)}

\* Every mandatory clause of the clause list has its section_name in content.
MandatoryFilled(clauses, content) ==
    \A i \in 1..Len(clauses) :
        clauses[i].type = MANDATORY => clauses[i].section_name \in Keys(content)

\* The document the last call was about, in the table of the running module.
LastDoc ==
    IF impl = "document_tools" THEN live_documents[last.doc]
    ELSE documents_agents[last.doc]

\* The last call accepted an answer for the clause with order_num last.info[1].
AnswerAccepted == last.op = "process" /\ last.outcome = "ok"

\* C1: in every reachable state, a document whose stored status is
\* 'completed' has the section_name of every mandatory clause of its template
\* as a key of its stored content.
C1_CompletedHasMandatory ==
    \A doc \in StoredDocs :
        doc.status = "completed" =>
            MandatoryFilled(GetClausesByTemplate(doc.doc_template_id), doc.content)

\* C2: when an answer is accepted for the clause with order_num k, the stored
\* cursor is the smallest order_num of the template strictly greater than k,
\* also for non-contiguous order_nums; the document is treated as having no
\* next clause (it is completed by the submission) only when k is the largest
\* order_num of the template.
C2_CursorAdvancesToNextOrder ==
    AnswerAccepted =>
        LET k == last.info[1]
            greater == {o \in OrderNums(GetClausesByTemplate(LastDoc.doc_template_id)) :
                          o > k}
        IN IF greater # {}
           THEN /\ LastDoc.current_clause_order =
                       (CHOOSE m \in greater : \A n \in greater : m <= n)
                /\ LastDoc.status # "completed"
           ELSE TRUE

\* The order_num a document's cursor should hold when the clauses whose
\* sections are in content are the accepted ones and none was skipped.
FirstOpenOrder(clauses, content) ==
    LET open == {i \in 1..Len(clauses) : clauses[i].section_name \notin Keys(content)}
    IN IF open = {} THEN 0
       ELSE clauses[CHOOSE i \in open : \A j \in open : i <= j].order_num

\* C3: the stored current_clause_order is the order_num of the first clause
\* neither accepted nor skipped, or a value past the last clause's order_num
\* when every clause was visited (stated here for the live_documents table,
\* whose tools have no skip); in particular, right after an answer for clause
\* k is accepted, the stored cursor is not k.
C3_CursorIsFirstOpenClause ==
    /\ AnswerAccepted => LastDoc.current_clause_order # last.info[1]
    /\ \A i \in 1..Len(live_documents) :
          LET doc == live_documents[i]
              clauses == GetClausesByTemplate(doc.doc_template_id)
              open == FirstOpenOrder(clauses, doc.content)
          IN IF open # 0 THEN doc.current_clause_order = open
             ELSE \A o \in OrderNums(clauses) : doc.current_clause_order > o

\* C4: a submitted answer that fails the rules of the clause it answers is
\* rejected, with the failing rule's message, and nothing is stored: the call
\* is never an accepted answer.
C4_InvalidAnswerRejected ==
    last.op = "process" /\ last.outcome \in {"ok", "rejected"} =>
        LET clauses == GetClausesByTemplate(LastDoc.doc_template_id)
            clause == clauses[FirstByOrder(clauses, last.info[1])]
            r == ValidateResponse(last.info[2], clause)
        IN ~r.valid => last.outcome = "rejected" /\ last.info[3] = r.message

\* The agent has a session whose current clause exists.
HasCurrentClause ==
    /\ agent.current_document_id # 0
    /\ agent.current_clause_index < Len(agent.current_clauses)

CurrentClause == agent.current_clauses[agent.current_clause_index + 1]

\* The section names a caller may pass to skip_optional_clause.
SkipNames == {SectionNames[o] : o \in 1..MaxOrder}

\* C5: finalize (complete_document, complete_nda_document) marks the
\* document completed and returns the rendered document if and only if, at
\* the time of the call, every mandatory clause of the document's template
\* has its section_name among the keys of the stored content.
C5_FinalizeIffMandatoryFilled ==
    /\ \A d \in 1..Len(live_documents) :
          LET doc == live_documents[d]
              r == complete_document(live_documents, d)
          IN (r.out.outcome = "ok" /\ ~r.out.raised /\ r.docs[d].status = "completed")
             <=> MandatoryFilled(GetClausesByTemplate(doc.doc_template_id), doc.content)
    /\ agent.current_document_id # 0 =>
          LET d == agent.current_document_id
              doc == documents_agents[d]
              r == complete_nda_document(agent, documents_agents)
          IN (r.out.outcome = "ok" /\ r.docs[d].status = "completed")
             <=> MandatoryFilled(GetClausesByTemplate(doc.doc_template_id), doc.content)

\* A finalize call succeeded on a document that lacks an optional section.
C5_Witness ==
    /\ last.op = "complete" /\ last.outcome = "ok"
    /\ LastDoc.status = "completed"
    /\ \E i \in 1..Len(clause_rows) :
          /\ clause_rows[i].type = OPTIONAL
          /\ clause_rows[i].section_name \notin Keys(LastDoc.content)
    /\ \E i \in 1..Len(clause_rows) : clause_rows[i].type = MANDATORY

\* The section names finalize should report: every mandatory clause whose
\* section is not in content, by increasing order_num.
MissingSet(clauses, content) ==
    {clauses[i].section_name : i \in {j \in 1..Len(clauses) :
        /\ clauses[j].type = MANDATORY
        /\ clauses[j].section_name \notin Keys(content)}}

\* The order_num of the clause of the template that has this section name.
OrderOf(clauses, section_name) ==
    CHOOSE o \in OrderNums(clauses) :
        \E k \in 1..Len(clauses) :
            clauses[k].order_num = o /\ clauses[k].section_name = section_name

\* info names every missing mandatory section once, no other section, by
\* increasing order_num.
NamesAllMissing(clauses, content, info) ==
    /\ {info[i] : i \in 1..Len(info)} = MissingSet(clauses, content)
    /\ Len(info) = Cardinality(MissingSet(clauses, content))
    /\ \A i, j \in 1..Len(info) :
          i < j => OrderOf(clauses, info[i]) < OrderOf(clauses, info[j])

\* C6: when finalize is refused, the outcome names exactly the mandatory
\* clauses whose section_name is not in content, all of them and no others,
\* in increasing order_num.
C6_RefusalNamesAllMissing ==
    /\ \A d \in 1..Len(live_documents) :
          LET doc == live_documents[d]
              r == complete_document(live_documents, d)
          IN r.out.outcome = "mandatory_missing" =>
                NamesAllMissing(GetClausesByTemplate(doc.doc_template_id),
                                doc.content, r.out.info)
    /\ agent.current_document_id # 0 =>
          LET doc == documents_agents[agent.current_document_id]
              r == complete_nda_document(agent, documents_agents)
          IN r.out.outcome = "mandatory_missing" =>
                NamesAllMissing(GetClausesByTemplate(doc.doc_template_id),
                                doc.content, r.out.info)

\* C7: a finalize call refused because a mandatory clause is missing changes
\* nothing: the document row (status, content, cursor) and the agent's
\* session fields are the same before and after; a document in progress
\* stays in progress.
C7_RefusedFinalizeChangesNothing ==
    /\ \A d \in 1..Len(live_documents) :
          LET doc == live_documents[d]
              r == complete_document(live_documents, d)
          IN ~MandatoryFilled(GetClausesByTemplate(doc.doc_template_id), doc.content)
             => r.out.outcome = "mandatory_missing" /\ r.docs = live_documents
    /\ agent.current_document_id # 0 =>
          LET doc == documents_agents[agent.current_document_id]
              r == complete_nda_document(agent, documents_agents)
          IN ~MandatoryFilled(GetClausesByTemplate(doc.doc_template_id), doc.content)
             => /\ r.out.outcome = "mandatory_missing"
                /\ r.docs = documents_agents
                /\ r.agent = agent

\* A finalize call was refused on a document in progress that has content.
C7_Witness ==
    /\ last.op = "complete" /\ last.outcome = "mandatory_missing"
    /\ LastDoc.status = "in_progress"
    /\ LastDoc.content # <<>>

\* C8: skip on an optional current clause, with its own section
\* name, advances the cursor to the next clause and leaves content unchanged.
C8_SkipAdvancesCursor ==
    HasCurrentClause /\ CurrentClause.type = OPTIONAL =>
        LET r == skip_optional_clause(agent, documents_agents,
                                      CurrentClause.section_name)
        IN /\ r.agent.current_clause_index = agent.current_clause_index + 1
           /\ r.docs = documents_agents

\* What skip_optional_clause does on an optional current clause named by its
\* own section name: it reports the clause skipped and changes neither
\* content nor the stored cursor nor current_clause_index; only a later
\* proceed_to_next_clause adds one to current_clause_index, writing nothing,
\* as it does after an accepted answer.
C8_SkipLeavesCursorProceedAdvances ==
    HasCurrentClause /\ CurrentClause.type = OPTIONAL =>
        LET r == skip_optional_clause(agent, documents_agents,
                                      CurrentClause.section_name)
            p == proceed_to_next_clause(r.agent, r.docs)
        IN /\ r.out.outcome = "skipped"
           /\ r.agent = agent
           /\ r.docs = documents_agents
           /\ p.agent = [agent EXCEPT !.current_clause_index = @ + 1]
           /\ p.docs = documents_agents
           /\ \A user_response \in Answers :
                 LET a == nda_process_clause_response(agent, documents_agents,
                                                      user_response)
                     q == proceed_to_next_clause(a.agent, a.docs)
                 IN a.out.outcome = "ok" => q.agent = p.agent

\* An optional clause was skipped and is still the current clause.
C8_Witness ==
    /\ last.op = "skip" /\ last.outcome = "skipped"
    /\ HasCurrentClause
    /\ CurrentClause.section_name = last.info[1]

\* C9: skip on a mandatory current clause fails whatever section name is
\* passed, and changes nothing (cursor, content, status, session fields).
C9_MandatorySkipAlwaysFails ==
    HasCurrentClause /\ CurrentClause.type = MANDATORY =>
        \A section_name \in SkipNames :
            LET r == skip_optional_clause(agent, documents_agents, section_name)
            IN /\ r.out.outcome = "cannot_skip_mandatory"
               /\ r.agent = agent
               /\ r.docs = documents_agents

\* A skip of a mandatory clause was refused.
C9_Witness ==
    /\ last.op = "skip" /\ last.outcome = "cannot_skip_mandatory"
    /\ HasCurrentClause
    /\ CurrentClause.type = MANDATORY

\* C10: skip on an optional current clause with another section name than
\* the clause's fails with the section-name-mismatch outcome and leaves
\* cursor and content unchanged.
C10_SkipNameMismatch ==
    HasCurrentClause /\ CurrentClause.type = OPTIONAL =>
        \A section_name \in SkipNames \ {CurrentClause.section_name} :
            LET r == skip_optional_clause(agent, documents_agents, section_name)
            IN /\ r.out.outcome = "section_name_mismatch"
               /\ r.out.info = <<CurrentClause.section_name>>
               /\ r.agent = agent
               /\ r.docs = documents_agents

\* A skip of an optional clause was refused for its section name.
C10_Witness ==
    /\ last.op = "skip" /\ last.outcome = "section_name_mismatch"
    /\ HasCurrentClause
    /\ CurrentClause.type = OPTIONAL
    /\ documents_agents[agent.current_document_id].content # <<>>

\* content keeps every key of old with its value.
KeepsContent(old, content) ==
    \A k \in Keys(old) : k \in Keys(content) /\ Value(content, k) = Value(old, k)

\* C11: once an answer is stored under a clause's section_name, no later
\* submission is accepted for that clause and the stored value is never
\* overwritten: whatever is submitted next, every key of content keeps its
\* value.
C11_AcceptedAnswerNeverOverwritten ==
    /\ \A d \in 1..Len(live_documents), clause_id \in ClauseIds,
          filled_content \in Answers :
          KeepsContent(live_documents[d].content,
                       process_clause_response(live_documents, d, clause_id,
                                               filled_content).docs[d].content)
    /\ agent.current_document_id # 0 =>
          \A user_response \in Answers :
              LET d == agent.current_document_id IN
              KeepsContent(documents_agents[d].content,
                           nda_process_clause_response(agent, documents_agents,
                                                       user_response).docs[d].content)

\* C12: a submission for a document that is no row of the table, or whose
\* status is 'completed', is not accepted (on the agent it is answered with
\* the no-active-session message) and leaves content, cursor and status of
\* every row as they were.
C12_NoSubmitWithoutActiveDocument ==
    /\ \A d \in DocIdsOf(live_documents), clause_id \in ClauseIds,
          filled_content \in Answers :
          LET r == process_clause_response(live_documents, d, clause_id,
                                           filled_content)
          IN (d > Len(live_documents) \/ live_documents[d].status = "completed")
             => r.out.outcome # "ok" /\ r.docs = live_documents
    /\ \A user_response \in Answers :
          LET d == agent.current_document_id
              r == nda_process_clause_response(agent, documents_agents, user_response)
          IN (d = 0 \/ d > Len(documents_agents)
                    \/ documents_agents[d].status = "completed")
             => r.out.outcome = "no_session" /\ r.docs = documents_agents

\* C13: completed is terminal: on a row whose status is 'completed', none of
\* process_clause_response, update_live_document_content, pause_document,
\* resume_document and complete_document changes status, content or cursor.
C13_CompletedIsTerminal ==
    /\ \A d \in 1..Len(live_documents) :
          live_documents[d].status = "completed" =>
              /\ \A clause_id \in ClauseIds, filled_content \in Answers :
                    process_clause_response(live_documents, d, clause_id,
                                            filled_content).docs[d] = live_documents[d]
              /\ \A filled_content \in Answers, o \in 1..MaxOrder :
                    UpdateLiveDocumentContent(live_documents, d,
                        Put(live_documents[d].content, SectionNames[o], filled_content),
                        o)[d] = live_documents[d]
              /\ set_status(live_documents, d, "pause", "paused").docs[d]
                     = live_documents[d]
              /\ set_status(live_documents, d, "resume", "in_progress").docs[d]
                     = live_documents[d]
              /\ complete_document(live_documents, d).docs[d] = live_documents[d]
    /\ \A d \in 1..Len(documents_agents) :
          documents_agents[d].status = "completed" =>
              /\ \A user_response \in Answers :
                    nda_process_clause_response(agent, documents_agents,
                                                user_response).docs[d]
                        = documents_agents[d]
              /\ complete_nda_document(agent, documents_agents).docs[d]
                     = documents_agents[d]

\* The smallest order_num of a non-empty clause table.
SmallestOrder(rows) ==
    CHOOSE m \in OrderNums(rows) : \A n \in OrderNums(rows) : m <= n

\* C14: a successful start returns the clause with the smallest order_num of
\* the template, whatever that order_num is and whatever order the clause
\* rows were inserted in: the clause returned is the first of the rows
\* ORDER BY order_num for every insertion order.
C14_StartYieldsSmallestOrderNum ==
    last.op = "start" /\ last.outcome = "ok" =>
        \A ins \in InsertionOrders(clause_rows) :
            LET first == SortByOrderNum(ins)[1] IN
            /\ first.order_num = SmallestOrder(clause_rows)
            /\ GetClausesByTemplate(LastDoc.doc_template_id)[1] = first
            /\ impl = "document_tools" => last.info[1] = ClauseInfo(first)
            /\ impl = "nda_creator_agent_tools" =>
                  /\ last.info[3] = first.section_name
                  /\ agent.current_clauses[agent.current_clause_index + 1] = first

\* A start succeeded on a template of several clauses whose smallest
\* order_num is not 1.
C14_Witness ==
    /\ last.op = "start" /\ last.outcome = "ok"
    /\ Len(clause_rows) >= 2
    /\ SmallestOrder(clause_rows) # 1

\* C15: right after a successful start the created document has status
\* in_progress, empty content, and a stored current_clause_order equal to the
\* order_num of the template's first clause, also when that is not 1.
C15_StartStoresFirstClauseCursor ==
    last.op = "start" /\ last.outcome = "ok" =>
        /\ LastDoc.status = "in_progress"
        /\ LastDoc.content = <<>>
        /\ LastDoc.current_clause_order = SmallestOrder(clause_rows)

\* C16: start with a template id that is no row of the template table fails
\* as template-not-found, start on a template without clauses fails as
\* no-clauses-defined, and neither inserts a document row.
C16_FailedStartCreatesNothing ==
    /\ \A user_id \in Users, template_id \in TemplateIds :
          LET r == start_document_creation(live_documents, user_id, template_id)
          IN /\ template_id \notin KnownTemplates =>
                   /\ r.out.outcome = "template_not_found" /\ r.out.raised
                   /\ r.docs = live_documents
             /\ template_id \in KnownTemplates /\ clause_rows = <<>> =>
                   /\ r.out.outcome = "no_clauses" /\ r.out.raised
                   /\ r.docs = live_documents
    /\ agent.doc_template_ids # <<>> =>
          LET template_id == agent.doc_template_ids[1]
              r == start_nda_creation(agent, documents_agents)
          IN /\ template_id \notin KnownTemplates =>
                   r.out.outcome = "template_not_found" /\ r.docs = documents_agents
             /\ template_id \in KnownTemplates /\ clause_rows = <<>> =>
                   r.out.outcome = "no_clauses" /\ r.docs = documents_agents

\* A start on a template without clauses failed and the table is empty.
C16_Witness ==
    /\ last.op = "start" /\ last.outcome = "no_clauses"
    /\ clause_rows = <<>>
    /\ live_documents = <<>> /\ documents_agents = <<>>

\* The cursor of the row has reached the clause: the clause is the one start
\* returned, or its order_num is not beyond the stored current_clause_order.
CursorReached(doc, clause) ==
    \/ clause.order_num <= doc.current_clause_order
    \/ clause.order_num = SmallestOrder(GetClausesByTemplate(doc.doc_template_id))

\* C17: every key of a document's content is the section_name of a clause of
\* its template, and a submission never writes the section of a clause the
\* cursor has not reached yet: on live_documents a submission for a clause
\* beyond the cursor leaves content as it was, and the agent writes no section
\* but the current clause's.
C17_ContentKeysWereTraversed ==
    /\ \A doc \in StoredDocs : \A k \in Keys(doc.content) :
          \E i \in 1..Len(clause_rows) : clause_rows[i].section_name = k
    /\ \A d \in 1..Len(live_documents), i \in 1..Len(clause_rows),
          filled_content \in Answers :
          ~CursorReached(live_documents[d], clause_rows[i]) =>
              process_clause_response(live_documents, d, clause_rows[i].id,
                                      filled_content).docs[d].content
                  = live_documents[d].content
    /\ HasCurrentClause =>
          \A user_response \in Answers :
              LET d == agent.current_document_id IN
              Keys(nda_process_clause_response(agent, documents_agents,
                                               user_response).docs[d].content)
                  \subseteq Keys(documents_agents[d].content)
                            \cup {CurrentClause.section_name}

\* C18: an accepted answer reaches the store as one update of content and
\* cursor together: whenever an accepted submission changes the cursor or the
\* status of the row, the row's content holds the answer under the clause's
\* section_name, and whenever it changes content, content is the old content
\* with that one section set.
C18_ContentAndCursorWrittenTogether ==
    /\ \A d \in 1..Len(live_documents), i \in 1..Len(clause_rows),
          filled_content \in Answers :
          LET old == live_documents[d]
              r == process_clause_response(live_documents, d, clause_rows[i].id,
                                           filled_content)
              new == r.docs[d]
              written == Put(old.content, clause_rows[i].section_name, filled_content)
          IN /\ r.out.outcome = "ok"
                /\ (new.current_clause_order # old.current_clause_order
                        \/ new.status # old.status)
                => new.content = written
             /\ new.content # old.content => r.out.outcome = "ok" /\ new.content = written
             /\ r.out.outcome # "ok" => new = old
    /\ HasCurrentClause =>
          \A user_response \in Answers :
              LET d == agent.current_document_id
                  old == documents_agents[d]
                  r == nda_process_clause_response(agent, documents_agents,
                                                   user_response)
                  new == r.docs[d]
                  written == Put(old.content, CurrentClause.section_name, user_response)
              IN /\ r.out.outcome = "ok"
                    /\ (new.current_clause_order # old.current_clause_order
                            \/ new.status # old.status)
                    => new.content = written
                 /\ new.content # old.content
                    => r.out.outcome = "ok" /\ new.content = written
                 /\ r.out.outcome # "ok" => new = old

RECURSIVE Concat(_)
\* The texts of a sequence of texts, one after the other.
Concat(texts) == IF texts = <<>> THEN <<>> ELSE Head(texts) \o Concat(Tail(texts))

\* The clause's content_template with every item that is a placeholder of the
\* clause replaced by the answer; the answer itself without content_template.
FilledText(clause, answer) ==
    IF clause.content_template = <<>> THEN answer
    ELSE Concat([i \in 1..Len(clause.content_template) |->
                    IF \E j \in 1..Len(clause.placeholders) :
                          clause.content_template[i] = Placeholder(clause.placeholders[j])
                    THEN answer
                    ELSE <<clause.content_template[i]>>])

InProgressOf(user_id) ==
    {d \in 1..Len(live_documents) :
        /\ live_documents[d].user_id = user_id
        /\ live_documents[d].status = "in_progress"}

\* C20: after any sequence of start operations, at most one document with
\* status in_progress exists per user.
C20_OneInProgressPerUser ==
    \A user_id \in StartUsers : Cardinality(InProgressOf(user_id)) <= 1

\* The last call was _validate_response on last.info[1] under the conditions
\* last.info[2].
Validated == last.op = "validate_response"

\* The length of the text between its first and its last non-blank character.
TrimmedLength(text) ==
    LET solid == {i \in 1..Len(text) : text[i] # " "}
    IN IF solid = {} THEN 0
       ELSE (CHOOSE m \in solid : \A n \in solid : n <= m)
            - (CHOOSE m \in solid : \A n \in solid : m <= n) + 1

\* C21: _validate_response evaluates the conditions in declaration order and
\* returns the message of the first one that fails: a response failing no
\* condition is valid, and otherwise the message is that of the failing
\* condition of least position, whatever follows it.
C21_FirstFailingRuleIsReported ==
    Validated =>
        LET response == last.info[1]
            conditions == last.info[2]
            failing == {i \in 1..Len(conditions) :
                          ~CheckRule(conditions[i], response).valid}
        IN IF failing = {}
           THEN last.outcome = "valid"
           ELSE LET first == CHOOSE i \in failing : \A j \in failing : i <= j
                IN /\ last.outcome = "invalid"
                   /\ last.info[3] = CheckRule(conditions[first], response).message
                   /\ last.info[3][1] = conditions[first].message

\* "x" was validated under [min_length 10, forbidden word "x"], both of which
\* it fails, and only the min_length message came back.
C21_Witness ==
    /\ Validated
    /\ last.info[1] = <<"x">>
    /\ Len(last.info[2]) = 2
    /\ last.info[2][1].type = "min_length" /\ last.info[2][1].value = 10
    /\ last.info[2][2].type = "contains_forbidden_words"
    /\ last.outcome = "invalid"
    /\ last.info[3][1] = "min 10"

\* C22: min_length n rejects exactly the responses whose trimmed length is
\* less than n and max_length n exactly those whose trimmed length is greater
\* than n; blanks at either end never count.
C22_LengthRulesUseTrimmedLength ==
    Validated /\ Len(last.info[2]) = 1 =>
        LET response == last.info[1]
            rule == last.info[2][1]
        IN /\ rule.type = "min_length" =>
                 (last.outcome = "invalid" <=> TrimmedLength(response) < rule.value)
           /\ rule.type = "max_length" =>
                 (last.outcome = "invalid" <=> TrimmedLength(response) > rule.value)

\* A response of trimmed length 3 and length 5 passed max_length 3.
C22_Witness ==
    /\ Validated
    /\ last.info[1] = <<" ", "a", "b", "c", " ">>
    /\ last.info[2] = <<[type |-> "max_length", value |-> 3, words |-> <<>>,
                         message |-> "max 3"]>>
    /\ last.outcome = "valid"

\* The last call was a preview of the tools that produced a text.
Previewed == impl = "document_tools" /\ last.op = "preview" /\ last.outcome = "ok"

\* C23: the preview has one section per clause of the template, in increasing
\* order_num; a section shows the stored content if its section_name is a key
\* of content, else the in-progress marker if its order_num is the cursor,
\* else the pending marker.  So no filled clause shows a marker and at most
\* one section shows the in-progress marker.
C23_PreviewSections ==
    Previewed =>
        LET doc == live_documents[last.doc]
            sections == Tail(last.info)
        IN /\ Len(sections) = Len(clause_rows)
           /\ \A i, j \in 1..Len(clause_rows) :
                 i < j => clause_rows[i].order_num < clause_rows[j].order_num
           /\ \A i \in 1..Len(clause_rows) :
                 LET c == clause_rows[i] IN
                 /\ sections[i][1] = c.section_name
                 /\ sections[i][2] =
                       IF c.section_name \in DOMAIN doc.content
                       THEN doc.content[c.section_name]
                       ELSE IF c.order_num = doc.current_clause_order
                       THEN InProgressMarker
                       ELSE PendingMarker
                 /\ c.section_name \in DOMAIN doc.content =>
                       sections[i][2] \notin {InProgressMarker, PendingMarker}
           /\ Cardinality({i \in 1..Len(sections) :
                             sections[i][2] = InProgressMarker}) <= 1

\* A preview showed a filled section, the section in progress and a pending
\* one.
C23_Witness ==
    /\ Previewed
    /\ LET sections == Tail(last.info) IN
       /\ \E i \in 1..Len(sections) : sections[i][2] = InProgressMarker
       /\ \E i \in 1..Len(sections) : sections[i][2] = PendingMarker
       /\ \E i \in 1..Len(sections) :
             /\ clause_rows[i].section_name \in DOMAIN live_documents[last.doc].content
             /\ sections[i][2] = live_documents[last.doc].content[clause_rows[i].section_name]

\* C24: a preview changes nothing, whether it produces a text or fails: every
\* step that is a preview of the tools or of the agent leaves both tables,
\* the clause rows and the agent's session as they were.
C24_PreviewMutatesNothing ==
    [][(GetLivePreview \/ GetDocumentPreview) =>
          UNCHANGED <<clause_rows, live_documents, documents_agents, agent>>]_vars

\* A preview of a document that has content produced a text.
C24_Witness ==
    /\ last.op = "preview"
    /\ last.outcome = "ok"
    /\ \/ impl = "document_tools" /\ live_documents[last.doc].content # <<>>
       \/ /\ impl = "nda_creator_agent_tools"
          /\ documents_agents[last.doc].content # <<>>

\* The last call finalized a document and rendered it.
Finalized == last.op = "complete" /\ last.outcome = "ok"

\* The row of the document the last call was about.
LastRow ==
    IF impl = "document_tools" THEN live_documents[last.doc]
    ELSE documents_agents[last.doc]

\* C25: the final document is the heading of the template followed by one
\* section per clause whose section_name is a key of content, in increasing
\* order_num, each with the stored content; a clause absent from content has
\* no section.
C25_FinalDocumentSections ==
    Finalized =>
        LET content == LastRow.content
            sections == Tail(last.info)
            filled == {i \in 1..Len(clause_rows) :
                          clause_rows[i].section_name \in DOMAIN content}
        IN /\ Head(last.info) = LastRow.doc_template_id
           /\ Len(sections) = Cardinality(filled)
           /\ \A i \in filled :
                 LET k == Cardinality({j \in filled :
                              clause_rows[j].order_num <= clause_rows[i].order_num})
                 IN sections[k] = <<clause_rows[i].section_name,
                                    content[clause_rows[i].section_name]>>
           /\ \A k \in 1..Len(sections) : sections[k][1] \in DOMAIN content

\* A document was finalized with a section for an answered clause and none
\* for a clause that was left out.
C25_Witness ==
    /\ Finalized
    /\ Len(last.info) > 1
    /\ \E i \in 1..Len(clause_rows) :
          clause_rows[i].section_name \notin DOMAIN LastRow.content

\* The same keys and values, inserted in another order.
Reordered(items) ==
    {[i \in 1..Len(items) |-> items[p[i]]] : p \in Permutations(1..Len(items))}

\* C28: rendering is deterministic: for the same template, clause list and
\* content the text is the same whatever the order in which the content keys
\* were inserted and whatever the position of the session.
C28_RenderIsDeterministic ==
    last.op = "render" =>
        \A items \in Reordered(last.info[1]), k \in 0..Len(clause_rows) :
            RenderBy(impl, clause_rows, items, k) = last.info[2]

\* Two sections were stored in decreasing order_num and rendered in
\* increasing order_num.
C28_Witness ==
    /\ last.op = "render"
    /\ Len(last.info[1]) = 2
    /\ Len(last.info[2]) = 3
    /\ last.info[2][2][1] = last.info[1][2][1]
    /\ last.info[2][3][1] = last.info[1][1][1]

\* The template of the scenario: "Parties" (order_num 1, mandatory, no
\* condition) and "NonCompete" (order_num 2, optional, a minimum length).
NdaA == OrderBy({1, 2}, [o \in 1..MaxOrder |-> IF o = 1 THEN MANDATORY ELSE OPTIONAL])

\* The agent has started a document on that template and the answer to
\* "Parties" has just been accepted.
PartiesAnswered ==
    /\ impl = "nda_creator_agent_tools"
    /\ clause_rows = NdaA
    /\ last.op = "process" /\ last.outcome = "ok"
    /\ DOMAIN documents_agents[last.doc].content = {"Parties"}

\* C26: on the template [Parties mandatory, NonCompete optional], after start
\* and an accepted answer to "Parties" the cursor is 2 and content is
\* {Parties: answer}; skip("NonCompete") is then accepted, moves the cursor to
\* 3 and leaves content unchanged; finalize then succeeds and renders only the
\* "Parties" section.
C26_StartAnswerSkipFinalize ==
    PartiesAnswered =>
        LET doc == documents_agents[last.doc]
            s == skip_optional_clause(agent, documents_agents, "NonCompete")
            f == complete_nda_document(s.agent, s.docs)
        IN /\ doc.current_clause_order = 2
           /\ doc.content["Parties"] = last.info[2]
           /\ s.out.outcome = "skipped"
           /\ s.docs[last.doc].current_clause_order = 3
           /\ s.docs[last.doc].content = doc.content
           /\ f.out.outcome = "ok"
           /\ f.out.info = <<doc.doc_template_id, <<"Parties", last.info[2]>> >>

\* C27: start, submit, skip, preview and finalize turn every error condition
\* into an outcome they return: no exception leaves any of them.
C27_NoExceptionEscapes ==
    last.op \in {"start", "process", "skip", "preview", "complete"} => ~last.raised

\* The last call was run_workflow with a positional argument.
RanPositional == last.op = "run_workflow" /\ last.info[1] # <<>>

\* C29: run_workflow called with the text as positional argument behaves as
\* run_workflow(message=text): the text is forwarded as kwargs['message'],
\* the keyword arguments forwarded are those of the keyword call, run yields
\* the same responses, and nothing is raised.
C29_PositionalIsMessageKeyword ==
    RanPositional =>
        LET text == last.info[1][1]
            named == run_workflow(<<>>, [k \in DOMAIN last.info[2] \cup {"message"} |->
                                           IF k = "message" THEN text
                                           ELSE last.info[2][k]])
        IN /\ "message" \in DOMAIN last.info[3]
           /\ last.info[3]["message"] = text
           /\ last.info[3] = named
           /\ last.info[4] = run(named)
           /\ ~last.raised

\* A text was passed as the only argument, positionally, and run went
\* through with it.
C29_Witness ==
    /\ RanPositional
    /\ last.info[1] = << <<"v", "a", "l", "i", "d">> >>
    /\ last.info[2] = <<>>
    /\ Len(last.info[4]) = 5

\* The tools' process_clause_response has just accepted an answer.
ToolsAccepted == impl = "document_tools" /\ last.op = "process" /\ last.outcome = "ok"

\* It was the answer to the last clause: the clause returned is the one
\* answered, not a next one.
LastClauseAccepted == ToolsAccepted /\ last.info[3][2] = last.info[1]

\* C30: when the tools' process_clause_response accepts the answer to the
\* last clause, the stored content holds that answer, so that the
\* complete_document that follows succeeds and renders the last section; and
\* the content of the DocumentInfo returned for an accepted answer is the
\* stored content.
C30_LastAnswerIsStored ==
    /\ ToolsAccepted => last.info[4] = live_documents[last.doc].content
    /\ LastClauseAccepted =>
          LET section_name == last.info[3][3]
              c == complete_document(live_documents, last.doc)
          IN /\ section_name \in DOMAIN live_documents[last.doc].content
             /\ live_documents[last.doc].content[section_name] = last.info[2]
             /\ c.out.outcome = "ok"
             /\ \E k \in 2..Len(c.out.info) : c.out.info[k] = <<section_name, last.info[2]>>

\* The condition types _validate_response has a branch for.
KnownTypes ==
    {"contains_forbidden_words", "min_length", "max_length", "required_pattern",
     "must_contain"}

\* The conditions of known type, in their order.
KnownOnly(conditions) == SelectSeq(conditions, LAMBDA c : c.type \in KnownTypes)

\* C37: a condition whose type is not one of the five known types passes: it
\* never rejects a response and does not stop the evaluation of the
\* conditions after it, so the verdict is that of the conditions of known
\* type alone; a clause without conditions accepts every response.
C37_UnknownRuleTypePasses ==
    Validated =>
        LET response == last.info[1]
            conditions == last.info[2]
            known == ValidateResponse(response, ClauseWith(KnownOnly(conditions)))
        IN /\ last.outcome = (IF known.valid THEN "valid" ELSE "invalid")
           /\ last.info[3] = known.message
           /\ KnownOnly(conditions) = <<>> => last.outcome = "valid"
           /\ ~(\E i \in 1..Len(conditions) :
                   /\ conditions[i].type \notin KnownTypes
                   /\ last.outcome = "invalid"
                   /\ last.info[3][1] = conditions[i].message)

\* "x" was validated under [a condition of unknown type, min_length 10] and
\* the min_length message came back.
C37_Witness ==
    /\ Validated
    /\ last.info[1] = <<"x">>
    /\ Len(last.info[2]) = 2
    /\ last.info[2][1].type = "max_words"
    /\ last.info[2][2].type = "min_length" /\ last.info[2][2].value = 10
    /\ last.outcome = "invalid"
    /\ last.info[3][1] = "min 10"

\* The clause a call under way answers.
ClauseOf(req) == clause_rows[FirstById(clause_rows, req.clause_id)]

\* The call of s has finished and was one that writes content: its clause has
\* a next one.
WroteContent(s) ==
    /\ requests[s].pc = "done"
    /\ FirstByOrder(clause_rows, ClauseOf(requests[s]).order_num + 1) # 0

\* C31: no accepted answer is lost under concurrency: once two submissions
\* for two different clauses of the same document have both finished, in
\* whatever interleaving of their loads and writes, the stored content holds
\* the answers of both.
C31_NoAnswerLost ==
    \A s, t \in Callers :
        /\ s # t
        /\ WroteContent(s) /\ WroteContent(t)
        /\ requests[s].doc_id = requests[t].doc_id
        /\ requests[s].clause_id # requests[t].clause_id
        => LET content == live_documents[requests[s].doc_id].content
               name == ClauseOf(requests[s]).section_name
           IN /\ name \in DOMAIN content
              /\ content[name] = requests[s].filled_content

\* The clauses current_clause_index has moved past.
PassedClauses ==
    {i \in 1..Len(agent.current_clauses) : i <= agent.current_clause_index}

\* C32: proceed_to_next_clause moves current_clause_index past a clause only
\* if the clause is answered or is optional: no mandatory clause is passed
\* without a stored answer, and current_clause_index never exceeds
\* len(current_clauses), however often the operation is called.
C32_ProceedPassesOnlySettledClauses ==
    /\ agent.current_clause_index <= Len(agent.current_clauses)
    /\ agent.current_document_id # 0 =>
          \A i \in PassedClauses :
              agent.current_clauses[i].type = MANDATORY =>
                  agent.current_clauses[i].section_name
                      \in DOMAIN documents_agents[agent.current_document_id].content

\* A session is under way and has a clause to prompt.
SessionPrompting == HasCurrentClause

\* The session has visited every clause of its template.
AllClausesVisited ==
    /\ agent.current_document_id # 0
    /\ agent.current_clauses # <<>>
    /\ agent.current_clause_index = Len(agent.current_clauses)

\* C33: with the registered tools alone and a user who answers or skips every
\* prompted clause, a session started with start_nda_creation eventually
\* reaches current_clause_index = len(current_clauses).
C33_SessionVisitsEveryClause == SessionPrompting ~> AllClausesVisited

\* No row of live_documents has its cursor lowered by the step.
ToolsCursorKept ==
    \A d \in 1..Len(live_documents) :
        live_documents'[d].current_clause_order >= live_documents[d].current_clause_order

\* No row of documents_agents that the agent can still address has its cursor
\* lowered by the step.
AgentCursorKept ==
    \A d \in 1..Len(documents_agents) :
        documents_agents'[d].status # "archived" =>
            documents_agents'[d].current_clause_order
                >= documents_agents[d].current_clause_order

\* C34: the stored current_clause_order of a document never decreases,
\* whatever the sequence of submissions and whatever clause_id the caller
\* passes.
C34_CursorNeverDecreases == [][ToolsCursorKept /\ AgentCursorKept]_vars

\* C35: a start_nda_creation that fails leaves current_document_id,
\* current_template_id, current_clauses and current_clause_index as they
\* were.
C35_FailedStartKeepsSession ==
    [][StartNdaCreation /\ last'.outcome # "ok" =>
          /\ agent'.current_document_id = agent.current_document_id
          /\ agent'.current_template_id = agent.current_template_id
          /\ agent'.current_clauses = agent.current_clauses
          /\ agent'.current_clause_index = agent.current_clause_index]_vars

\* No session is active: none was started, or the last one was finalized.
NoSession == impl = "nda_creator_agent_tools" /\ agent.current_document_id = 0

\* C36: a successful complete_nda_document resets the session fields (no
\* document, no template, empty clause list, index 0), and while no session
\* is active process_clause_response, get_document_preview and
\* complete_nda_document return the no-active-session outcome and write
\* nothing.
C36_NoSessionAfterCompletion ==
    /\ impl = "nda_creator_agent_tools" /\ Finalized =>
          /\ agent.current_document_id = 0
          /\ agent.current_template_id = 0
          /\ agent.current_clauses = <<>>
          /\ agent.current_clause_index = 0
    /\ NoSession =>
          /\ \A user_response \in Answers :
                LET r == nda_process_clause_response(agent, documents_agents,
                                                     user_response)
                IN r.out.outcome = "no_session" /\ r.docs = documents_agents
                   /\ r.agent = agent
          /\ LET r == get_document_preview(agent, documents_agents)
             IN r.out.outcome = "no_session" /\ r.docs = documents_agents
                /\ r.agent = agent
          /\ LET r == complete_nda_document(agent, documents_agents)
             IN r.out.outcome = "no_session" /\ r.docs = documents_agents
                /\ r.agent = agent

\* After a document was finalized an answer was submitted and met no active
\* session.
C36_Witness ==
    /\ NoSession
    /\ \E d \in 1..Len(documents_agents) : documents_agents[d].status = "completed"
    /\ last.op = "process"
    /\ last.outcome = "no_session"

====
